---- MODULE Spec2Model ----
(***************************************************************************)
(* Turn ingestion pipeline of the voice companion: the turn-completion     *)
(* hook on_user_turn_completed of the four agent classes, the background   *)
(* ingestion task, and the memory store's add call.                        *)
(*                                                                         *)
(*   agents.CompanionAgent   src/agents/companion_agent.py                 *)
(*   agents.OnboardingAgent  src/agents/onboarding_agent.py                *)
(*   main.OnboardingAgent    src/main.py                                   *)
(*   main.Companion          src/main.py                                   *)
(***************************************************************************)
EXTENDS Naturals, Sequences, FiniteSets

VARIABLES agent, chat_ctx, hook, calls, tasks, inflight, store, issued, raised,
          n8n, inv, toollog, job, fn

\* The turn ingestion pipeline.
ingestvars == <<agent, chat_ctx, hook, calls, tasks, inflight, store, issued, raised>>

\* The tools of the companion agent and the automation service.
toolvars == <<n8n, inv, toollog>>

\* The entrypoint of one job.
jobvars == <<job>>

\* One call of a function of lib/n8n.py on its own: its arguments and result.
libvars == <<fn>>

vars == <<agent, chat_ctx, hook, calls, tasks, inflight, store, issued, raised,
          n8n, inv, toollog, job, fn>>

(* ---------------------------------------------------------------- bounds *)

\* Hook invocations in one behaviour.
MaxCalls == 3
\* Length of the chat context up to which the engine adds assistant turns.
MaxItems == 4

(* ---------------------------------------------------------------- values *)

\* Python's None, where a string is expected.
None == "<None>"

\* Python's None, where a ChatMessage is expected.
NoMessage == [role |-> None, text_content |-> None]

\* Truthiness of a str-or-None value (`if x`, `not x`).
Truthy(v) == v # None /\ v # ""

Variants ==
    {"agents.CompanionAgent", "agents.OnboardingAgent",
     "main.OnboardingAgent", "main.Companion"}

\* The classes whose hook spawns _ingest_messages_background with create_task.
BackgroundVariants == {"agents.CompanionAgent", "main.Companion"}

\* The classes whose payload is built with the caller's name as a prefix.
PrefixVariants == {"agents.CompanionAgent", "agents.OnboardingAgent"}

Roles == {"user", "assistant", "system"}

UserTexts == {"Hello", "Yes."}

AssistantTexts == {"Hi"}

SessionIds == {None, "", "s1"}

\* The user dict: with a display name, with an empty or null one, without the key.
NoNameKey == [k \in {"id"} |-> "u1"]

Users ==
    {[id |-> "u1", name |-> "Ann"], [id |-> "u1", name |-> ""],
     [id |-> "u1", name |-> None], NoNameKey}

\* CompanionAgent.__init__ reads user["name"] and passes it to str.replace:
\* the agent exists only for a user dict that has a str name. The onboarding
\* agent of agents/ reads the name with user.get. The classes of main.py never
\* read the name: Companion is given the fetched user, OnboardingAgent none.
ConstructibleUsers(variant) ==
    IF variant = "agents.CompanionAgent"
    THEN {u \in Users : "name" \in DOMAIN u /\ u.name # None}
    ELSE IF variant = "agents.OnboardingAgent" THEN Users
    ELSE IF variant = "main.Companion" THEN {[id |-> "u1", name |-> "Ann"]}
    ELSE {NoNameKey}

\* The initial chat context: empty, or the context blocks added as user messages.
InitialContexts ==
    {<<>>,
     <<[role |-> "user", text_content |-> "ctx"]>>,
     <<[role |-> "user", text_content |-> "ctx"],
       [role |-> "user", text_content |-> "req"]>>}

(* ------------------------------------------------- on_user_turn_completed *)

\* second_to_last_message = messages[-1] if len(messages) >= 2 else None
SecondToLast(messages) ==
    IF Len(messages) >= 2 THEN messages[Len(messages)] ELSE NoMessage

\* The firing condition without the check of the preceding turn's role.
FiresAfterAnyTurn(messages, new_message) ==
    /\ new_message.role = "user"
    /\ SecondToLast(messages) # NoMessage

\* The firing condition of the hook.
Fires(messages, new_message) ==
    /\ new_message.role = "user"
    /\ SecondToLast(messages) # NoMessage
    /\ SecondToLast(messages).role = "assistant"

\* role_type = "user" if message.role == "user" else "assistant"
RoleType(message) == IF message.role = "user" THEN "user" ELSE "assistant"

\* The speaker of a user-authored entry.
Speaker(user) == IF Truthy(user.name) THEN user.name ELSE "Unknown Caller"

\* The content of one entry.
Content(variant, user, message) ==
    IF variant \in PrefixVariants /\ RoleType(message) = "user"
    THEN Speaker(user) \o ": " \o message.text_content
    ELSE message.text_content

\* One entry of messages_to_ingest.
Entry(variant, user, message) ==
    IF variant \in {"agents.OnboardingAgent", "main.OnboardingAgent"}
    THEN [content |-> Content(variant, user, message),
          role |-> "family_member",
          role_type |-> RoleType(message)]
    ELSE [content |-> Content(variant, user, message),
          role_type |-> RoleType(message)]

\* The payload built oldest first.
MessagesToIngestOldestFirst(variant, user, last_message, second_to_last_message) ==
    <<Entry(variant, user, second_to_last_message),
      Entry(variant, user, last_message)>>

\* for message in [last_message, second_to_last_message]: append the entry
MessagesToIngest(variant, user, last_message, second_to_last_message) ==
    <<Entry(variant, user, last_message),
      Entry(variant, user, second_to_last_message)>>

\* Building the payload reads self.user['name'] for a user-authored entry.
RaisesKeyError(variant, user) ==
    variant \in PrefixVariants /\ "name" \notin DOMAIN user

\* What the hook returns when the firing condition is false.
NoFireReturn(variant, new_message) ==
    IF variant \in BackgroundVariants THEN new_message ELSE NoMessage

\* The session check that tests for None only.
HasSessionNotNone(session_id) == session_id # None

\* if not self.session_id: return new_message
HasSession(session_id) == Truthy(session_id)

\* A handler that lets the store's error through in the onboarding classes.
CatchesInBackgroundOnly(variant) == variant \in BackgroundVariants

\* except Exception: the store's error is caught and logged.
CatchesStoreError(variant) == TRUE

(* ------------------------------------------------------------------ state *)

\* The event loop is inside a synchronous call to the store.
LoopBlocked == \E c \in inflight : c.on = "loop"

\* An add that always writes to one fixed session.
AddCallFixedSession(turn, messages, on) ==
    [turn |-> turn,
     session_id |-> "s1",
     ignore_roles |-> <<"assistant">>,
     messages |-> messages,
     on |-> on]

AddCall(turn, messages, on) ==
    [turn |-> turn,
     session_id |-> agent.session_id,
     ignore_roles |-> <<"assistant">>,
     messages |-> messages,
     on |-> on]

\* No tool is running and no workflow exists.
ToolsIdle ==
    /\ n8n = [workflows |-> <<>>, next_id |-> 1]
    /\ inv = <<>>
    /\ toollog = <<>>

\* The entrypoint has run and the dialogue is active.
JobIdle == job = [pc |-> "dialogue"]

\* No function of lib/n8n.py is under evaluation on its own.
NoEvaluation == [pc |-> "none"]

LibIdle == fn = NoEvaluation

Init ==
    /\ ToolsIdle
    /\ JobIdle
    /\ LibIdle
    /\ agent \in {[variant |-> v, session_id |-> s, user |-> u] :
                    v \in Variants, s \in SessionIds, u \in Users}
    /\ agent.user \in ConstructibleUsers(agent.variant)
    /\ chat_ctx \in InitialContexts
    /\ hook = [pc |-> "idle", turn |-> 0]
    /\ calls = <<>>
    /\ tasks = <<>>
    /\ inflight = {}
    /\ store = <<>>
    /\ issued = <<>>
    /\ raised = <<>>

(* ---------------------------------------------------------------- actions *)

\* The dialogue engine appends a completed turn to the chat context.
Appended(message) == Append(chat_ctx, message)

\* The record of one hook invocation: its arguments and its outcome.
Call(new_message, status, value, dispatched) ==
    [items |-> chat_ctx, new_message |-> new_message,
     status |-> status, value |-> value, dispatched |-> dispatched]

\* The dialogue engine produces an assistant turn.
AssistantTurn(text) ==
    /\ ~LoopBlocked
    /\ Len(chat_ctx) < MaxItems
    /\ chat_ctx' = Appended([role |-> "assistant", text_content |-> text])
    /\ UNCHANGED <<agent, hook, calls, tasks, inflight, store, issued, raised>>
    /\ UNCHANGED <<toolvars, jobvars, libvars>>

\* The dialogue engine calls the hook with the turns so far and the new turn.
OnUserTurnCompleted(new_message) ==
    /\ ~LoopBlocked
    /\ hook.pc = "idle"
    /\ Len(calls) < MaxCalls
    /\ LET turn == Len(calls) + 1
           messages == chat_ctx
           messages_to_ingest ==
               MessagesToIngest(agent.variant, agent.user, new_message,
                                SecondToLast(messages))
       IN  IF ~HasSession(agent.session_id)
           THEN /\ calls' = Append(calls, Call(new_message, "returned", new_message, 0))
                /\ chat_ctx' = Appended(new_message)
                /\ UNCHANGED <<hook, tasks, inflight, issued>>
           ELSE IF ~Fires(messages, new_message)
           THEN /\ calls' = Append(calls,
                        Call(new_message, "returned",
                             NoFireReturn(agent.variant, new_message), 0))
                /\ chat_ctx' = Appended(new_message)
                /\ UNCHANGED <<hook, tasks, inflight, issued>>
           ELSE IF RaisesKeyError(agent.variant, agent.user)
           THEN /\ calls' = Append(calls, Call(new_message, "KeyError", NoMessage, 0))
                /\ UNCHANGED <<chat_ctx, hook, tasks, inflight, issued>>
           ELSE IF agent.variant \in BackgroundVariants
           THEN \* asyncio.create_task(self._ingest_messages_background(...))
                /\ tasks' = Append(tasks, [turn |-> turn, messages |-> messages_to_ingest])
                /\ calls' = Append(calls, Call(new_message, "returned", new_message, 1))
                /\ chat_ctx' = Appended(new_message)
                /\ UNCHANGED <<hook, inflight, issued>>
           ELSE \* zep.memory.add(...) called from the hook itself
                /\ inflight' = inflight \cup {AddCall(turn, messages_to_ingest, "loop")}
                /\ issued' = Append(issued, AddCall(turn, messages_to_ingest, "loop"))
                /\ hook' = [pc |-> "in_add", turn |-> turn]
                /\ calls' = Append(calls, Call(new_message, "pending", NoMessage, 1))
                /\ UNCHANGED <<chat_ctx, tasks>>
    /\ UNCHANGED <<agent, store, raised>>
    /\ UNCHANGED <<toolvars, jobvars, libvars>>

\* The event loop starts the oldest background task: _ingest_messages_background
\* runs up to its call of the store.
TaskStart ==
    /\ ~LoopBlocked
    /\ tasks # <<>>
    /\ LET task == Head(tasks)
           on == IF agent.variant = "agents.CompanionAgent" THEN "thread" ELSE "loop"
       IN  /\ inflight' = inflight \cup {AddCall(task.turn, task.messages, on)}
           /\ issued' = Append(issued, AddCall(task.turn, task.messages, on))
    /\ tasks' = Tail(tasks)
    /\ UNCHANGED <<agent, chat_ctx, hook, calls, store, raised>>
    /\ UNCHANGED <<toolvars, jobvars, libvars>>

\* The code after a call of the store made by the hook itself: return new_message.
HookResumes(c, status) ==
    IF c.on = "loop" /\ hook.pc = "in_add"
    THEN /\ hook' = [pc |-> "idle", turn |-> hook.turn]
         /\ calls' = [calls EXCEPT ![hook.turn].status = status,
                                   ![hook.turn].value =
                                       IF status = "returned"
                                       THEN calls[hook.turn].new_message
                                       ELSE NoMessage]
         /\ chat_ctx' = IF status = "returned"
                        THEN Appended(calls[hook.turn].new_message)
                        ELSE chat_ctx
    ELSE UNCHANGED <<hook, calls, chat_ctx>>

\* An add call in flight is applied to the store and returns.
AddReturns(c) ==
    /\ c \in inflight
    /\ inflight' = inflight \ {c}
    /\ store' = Append(store, c)
    /\ HookResumes(c, "returned")
    /\ UNCHANGED <<agent, tasks, issued, raised>>
    /\ UNCHANGED <<toolvars, jobvars, libvars>>

\* A failed add call that is issued again.
AddRaisesAndRetries(c) ==
    /\ c \in inflight
    /\ raised' = Append(raised, [call |-> c, caught |-> CatchesStoreError(agent.variant)])
    /\ issued' = Append(issued, c)
    /\ UNCHANGED <<agent, chat_ctx, hook, calls, tasks, inflight, store>>
    /\ UNCHANGED <<toolvars, jobvars, libvars>>

\* An add call in flight fails: the store raises.
AddRaises(c) ==
    /\ c \in inflight
    /\ inflight' = inflight \ {c}
    /\ raised' = Append(raised, [call |-> c, caught |-> CatchesStoreError(agent.variant)])
    /\ IF CatchesStoreError(agent.variant)
       THEN HookResumes(c, "returned")
       ELSE HookResumes(c, "StoreError")
    /\ UNCHANGED <<agent, tasks, store, issued>>
    /\ UNCHANGED <<toolvars, jobvars, libvars>>

Next ==
    \/ \E text \in AssistantTexts : AssistantTurn(text)
    \/ \E role \in Roles, text \in UserTexts :
          OnUserTurnCompleted([role |-> role, text_content |-> text])
    \/ TaskStart
    \/ \E c \in inflight : AddReturns(c)
    \/ \E c \in inflight : AddRaises(c)

Spec == Init /\ [][Next]_vars

TypeOK ==
    /\ hook.pc \in {"idle", "in_add"}
    /\ Len(calls) <= MaxCalls
    /\ \A c \in inflight : c.on \in {"loop", "thread"}

(* ----------------------------------------------------------------- claims *)

Range(s) == {s[i] : i \in 1..Len(s)}

\* Every ingestion dispatched so far: the tasks not yet started and the add calls issued.
Dispatched ==
    {[turn |-> t.turn, messages |-> t.messages] : t \in Range(tasks)}
        \cup {[turn |-> c.turn, messages |-> c.messages] : c \in Range(issued)}

\* The turn immediately preceding the new turn of a hook invocation, if any.
HasPreceding(call) == Len(call.items) >= 1

Preceding(call) == call.items[Len(call.items)]

\* The firing condition as the specification states it.
SpecFires(call) ==
    /\ call.new_message.role = "user"
    /\ HasPreceding(call)
    /\ Preceding(call).role = "assistant"

\* C1 (as claimed): with a valid session id, every hook invocation whose new
\* turn is a user turn and whose prior turns end with an assistant turn
\* dispatches exactly one add, also when the prior turns are that single
\* assistant turn.
C1_FiresAfterAssistant ==
    \A i \in 1..Len(calls) :
        (Truthy(agent.session_id) /\ SpecFires(calls[i]))
            => calls[i].dispatched = 1

\* C2: an add is dispatched only by a hook invocation whose new turn is a user
\* turn and whose immediately preceding turn exists and is an assistant turn.
C2_OnlyAfterAssistant ==
    /\ \A d \in Dispatched : SpecFires(calls[d.turn])
    /\ \A i \in 1..Len(calls) : calls[i].dispatched = 1 => SpecFires(calls[i])

\* C2 witness: one invocation dispatched an add and, with the same valid
\* session, a user turn after a user turn (with two prior turns or more) and
\* a non-user turn dispatched none.
C2_Witness ==
    /\ Len(issued) >= 1
    /\ \E i \in 1..Len(calls) :
          /\ calls[i].dispatched = 0
          /\ calls[i].new_message.role = "user"
          /\ Len(calls[i].items) >= 2
          /\ Preceding(calls[i]).role = "user"
    /\ \E i \in 1..Len(calls) :
          /\ calls[i].dispatched = 0
          /\ calls[i].new_message.role # "user"

\* C3 (as claimed): the add calls are applied to the store in the order of
\* their triggering user turns.
C3_StoreInTurnOrder ==
    \A i, j \in 1..Len(store) : i < j => store[i].turn < store[j].turn

\* C4 (as claimed): at most one add call of the session is in flight.
C4_AtMostOneInFlight == Cardinality(inflight) <= 1

\* C5 (as claimed): the hook never waits for an add call: no state has the
\* hook called and not returned while its add call is in flight.
C5_HookNeverWaits ==
    ~(hook.pc = "in_add" /\ \E c \in inflight : c.turn = hook.turn)

\* C6 (as claimed): every finished hook invocation returned its new turn.
C6_ReturnsNewTurn ==
    \A i \in 1..Len(calls) :
        calls[i].status # "pending"
            => calls[i].status = "returned" /\ calls[i].value = calls[i].new_message

\* C7: without a valid session id no task is spawned and no add call is issued.
C7_NoSessionNoIngestion ==
    ~Truthy(agent.session_id)
        => /\ tasks = <<>>
           /\ issued = <<>>
           /\ inflight = {}
           /\ store = <<>>
           /\ \A i \in 1..Len(calls) : calls[i].dispatched = 0

\* C7 witness: without a valid session id, two user turns that each follow
\* an assistant turn have completed.
C7_Witness ==
    /\ ~Truthy(agent.session_id)
    /\ \E i, j \in 1..Len(calls) :
          /\ i < j
          /\ SpecFires(calls[i]) /\ Len(calls[i].items) >= 2
          /\ SpecFires(calls[j]) /\ Len(calls[j].items) >= 2
          /\ calls[j].status = "returned"

\* C8: an error raised by an add call is caught: the hook invocation that
\* triggered it returns (its new turn) and nothing is raised to the engine.
C8_StoreErrorSwallowed ==
    /\ \A k \in 1..Len(raised) :
          /\ raised[k].caught
          /\ calls[raised[k].call.turn].status = "returned"
          /\ calls[raised[k].call.turn].value = calls[raised[k].call.turn].new_message
    /\ \A i \in 1..Len(calls) : calls[i].status # "StoreError"

\* C8 witness: an add call made by the hook itself raised, and a later turn
\* of the same session was ingested.
C8_Witness ==
    \E k \in 1..Len(raised) :
        /\ raised[k].call.on = "loop"
        /\ agent.variant \notin BackgroundVariants
        /\ \E c \in Range(store) : c.turn > raised[k].call.turn

\* C9: every payload has exactly two entries, newest first: the new user
\* turn tagged user, then the immediately preceding turn tagged assistant.
C9_PairNewestFirst ==
    \A d \in Dispatched :
        LET call == calls[d.turn]
            new == call.new_message.text_content
        IN  /\ Len(d.messages) = 2
            /\ d.messages[1].role_type = "user"
            /\ d.messages[2].role_type = "assistant"
            /\ call.new_message.role = "user"
            /\ d.messages[1].content \in
                 {new} \cup {n \o ": " \o new : n \in {"Ann", "Unknown Caller"}}
            /\ HasPreceding(call)
            /\ Preceding(call).role = "assistant"
            /\ d.messages[2].content = Preceding(call).text_content

\* C9 witness: a payload was dispatched.
C9_Witness ==
    \E d \in Dispatched :
        /\ d.messages[1].role_type = "user"
        /\ d.messages[2].content = "Hi"

\* The caller's display name as the specification states it.
DisplayName(user) ==
    IF "name" \in DOMAIN user /\ Truthy(user.name) THEN user.name ELSE "Unknown Caller"

\* C10 (as claimed): in every payload the user entry's content is the display
\* name, ': ' and the turn text, and the assistant entry's is the turn text.
C10_SpeakerPrefix ==
    \A d \in Dispatched :
        LET call == calls[d.turn]
        IN  /\ d.messages[1].content =
                 DisplayName(agent.user) \o ": " \o call.new_message.text_content
            /\ d.messages[2].content = Preceding(call).text_content

(***************************************************************************)
(* Tool dispatch layer: the tools of the two companion classes             *)
(* (agents.CompanionAgent, main.Companion), the client RPCs and the        *)
(* automation service behind src/lib/n8n.py.                               *)
(***************************************************************************)

(* ---------------------------------------------------------------- bounds *)

\* Tool invocations in one behaviour.
MaxToolCalls == 2
\* Tool invocations running at the same time (the slots of inv).
MaxRunning == 2

(* ---------------------------------------------------------------- values *)

\* Strings that are searched or compared by prefix are sequences of characters.
IdU1 == <<"u", "1">>

IdU12 == <<"u", "1", "2">>

IdSip == <<"s", "i", "p", "_", "6">>

\* The identities of the remote participant of a room.
Identities == {IdU1, IdU12, IdSip}

SipPrefix == <<"s", "i", "p", "_">>

\* str.startswith
StartsWith(str, prefix) ==
    Len(str) >= Len(prefix) /\ SubSeq(str, 1, Len(prefix)) = prefix

\* `sub in str` on strings
Contains(str, sub) ==
    \E k \in 0..(Len(str) - Len(sub)) : SubSeq(str, k + 1, k + Len(sub)) = sub

\* The placeholder tokens of the workflow template. A text is a sequence of
\* symbols; a token is two opening braces, the field's name and two closing
\* braces.
PhPhone == <<"{", "{", "$json.phoneNumber", "}", "}">>

PhUser == <<"{", "{", "$json.userId", "}", "}">>

PhCron == <<"{", "{", "$json.cron", "}", "}">>

PhApi == <<"{", "{", "$json.ELDERLY_COMPANION_API", "}", "}">>

PhMessage == <<"{", "{", "$json.message", "}", "}">>

PhTitle == <<"{", "{", "$json.workflowName", "}", "}">>

Placeholders == {PhPhone, PhUser, PhCron, PhApi, PhMessage, PhTitle}

\* str.replace(token, value, 1): the first occurrence of the token only.
RECURSIVE ReplaceFirst(_, _, _)
ReplaceFirst(text, token, value) ==
    IF Len(text) < Len(token) THEN text
    ELSE IF SubSeq(text, 1, Len(token)) = token
         THEN value \o SubSeq(text, Len(token) + 1, Len(text))
         ELSE <<Head(text)>> \o ReplaceFirst(Tail(text), token, value)

\* str.replace(token, value): every non-overlapping occurrence of the token,
\* left to right, in one pass; the inserted value is not scanned again.
RECURSIVE Replace(_, _, _)
Replace(text, token, value) ==
    IF Len(text) < Len(token) THEN text
    ELSE IF SubSeq(text, 1, Len(token)) = token
         THEN value \o Replace(SubSeq(text, Len(token) + 1, Len(text)), token, value)
         ELSE <<Head(text)>> \o Replace(Tail(text), token, value)

\* A chain of replacements that leaves the user id placeholder in the text.
SubstituteWithoutUser(text, cron, phone_number, user_id, message, title, api) ==
    Replace(Replace(Replace(Replace(Replace(text,
        PhPhone, phone_number), PhCron, cron),
        PhApi, api), PhMessage, message), PhTitle, title)

\* The chain of replacements of create_scheduled_workflow, in its order.
Substitute(text, cron, phone_number, user_id, message, title, api) ==
    Replace(Replace(Replace(Replace(Replace(Replace(text,
        PhPhone, phone_number), PhUser, user_id), PhCron, cron),
        PhApi, api), PhMessage, message), PhTitle, title)

\* workflows/elderly-companion.json: a trigger node, a request node that
\* carries the user id, and a node without parameters.
NoParameters == <<"<no parameters>">>

Template ==
    [name |-> PhTitle,
     nodes |-> <<PhCron,
                 PhApi \o <<"/">> \o PhUser \o <<"?">> \o PhPhone \o <<"&">> \o PhMessage,
                 NoParameters>>]

\* json.loads of the substituted template: the body of the create call.
WorkflowJson(cron, phone_number, user_id, message, title, api) ==
    [name |-> Substitute(Template.name, cron, phone_number, user_id, message, title, api),
     nodes |-> [k \in 1..Len(Template.nodes) |->
                  IF Template.nodes[k] = NoParameters THEN NoParameters
                  ELSE Substitute(Template.nodes[k], cron, phone_number, user_id,
                                  message, title, api)]]

\* json.dumps(node["parameters"])
JsonDumps(parameters) == <<"{">> \o parameters \o <<"}">>

\* if "parameters" in node: ... if user_id in params_str
NodeMatches(node, user_id) ==
    node # NoParameters /\ Contains(JsonDumps(node), user_id)

\* for node in workflow.get("nodes", []): ... append(workflow); break
WorkflowMatches(workflow, user_id) ==
    \E k \in 1..Len(workflow.nodes) : NodeMatches(workflow.nodes[k], user_id)

\* A variant of the inner loop that goes on after a match.
RECURSIVE AppendWithoutBreak(_, _, _)
AppendWithoutBreak(workflow, nodes, user_id) ==
    IF nodes = <<>> THEN <<>>
    ELSE (IF NodeMatches(Head(nodes), user_id) THEN <<workflow>> ELSE <<>>)
             \o AppendWithoutBreak(workflow, Tail(nodes), user_id)

\* The inner loop of get_user_workflows over the remaining nodes of one
\* workflow: what it appends to user_workflows (append, then break).
RECURSIVE AppendAndBreak(_, _, _)
AppendAndBreak(workflow, nodes, user_id) ==
    IF nodes = <<>> THEN <<>>
    ELSE IF NodeMatches(Head(nodes), user_id) THEN <<workflow>>
         ELSE AppendAndBreak(workflow, Tail(nodes), user_id)

\* The loop of get_user_workflows over the fetched collection, in its order.
RECURSIVE FilterWorkflows(_, _)
FilterWorkflows(workflows, user_id) ==
    IF workflows = <<>> THEN <<>>
    ELSE AppendAndBreak(Head(workflows), Head(workflows).nodes, user_id)
             \o FilterWorkflows(Tail(workflows), user_id)

\* workflow_ids = [w["id"] for w in workflows]
WorkflowIds(workflows) == {workflows[k].id : k \in 1..Len(workflows)}

\* The strings the tools return.
MsgNotFound == "I couldn't find that scheduled task. Please make sure you're trying to delete one of your own tasks."

MsgDeleted == "I've successfully deleted the scheduled task."

MsgDeleteError == "I encountered an error while trying to delete the scheduled task. Please try again later."

MsgScheduled == "I've scheduled the call for you. You'll receive a call at the specified time."

MsgScheduleError == "I encountered an error while trying to schedule the call. Please try again later."

MsgTasksError == "I encountered an error while trying to get your scheduled tasks. Please try again later."

MsgTimeError == "I encountered an error while trying to get the local time. Please try again later."

MsgReminderError == "I encountered an error while trying to schedule the reminder notification. Please try again later."

MsgSearchError == "Error searching the web"

MsgSearchFailed == "Web search failed: 500"

Tools ==
    {"web_search", "get_local_time", "schedule_reminder_notification",
     "schedule_task", "get_scheduled_tasks", "delete_scheduled_task"}

RpcTools == {"web_search", "get_local_time", "schedule_reminder_notification"}

\* What a tool returns from its `except Exception` handler.
Fallback(tool) ==
    CASE tool = "web_search" -> MsgSearchError
      [] tool = "get_local_time" -> MsgTimeError
      [] tool = "schedule_reminder_notification" -> MsgReminderError
      [] tool = "schedule_task" -> MsgScheduleError
      [] tool = "get_scheduled_tasks" -> MsgTasksError
      [] tool = "delete_scheduled_task" -> MsgDeleteError

(* ------------------------------------------------------------------ state *)

\* self.user["phoneNumber"] of the session of a caller.
PhoneOf(caller) == IF caller = IdSip THEN <<"6">> ELSE <<"7">>

\* A slot of inv in which no tool runs.
IdleSlot ==
    [pc |-> "idle", tool |-> None, caller |-> <<>>, arg |-> 0,
     rpcs |-> 0, creates |-> 0, activations |-> 0, deletes |-> 0,
     listed |-> FALSE, owned |-> {}, created |-> 0, rpc_failed |-> FALSE,
     replies |-> <<>>,
     provider |-> None, outcome |-> None, result |-> None, tasks |-> <<>>,
     \* the number of invocations that had finished when this one started
     finished_before |-> 0]

\* The tool invocations begun so far.
Started == Len(toollog) + Cardinality({i \in DOMAIN inv : inv[i].pc # "idle"})

\* Is a workflow of this id in the automation service?
Exists(id) == \E k \in 1..Len(n8n.workflows) : n8n.workflows[k].id = id

\* The workflow the service stores for a create call of caller: the template
\* with its placeholders substituted, not yet active.
Created(id, caller) ==
    LET body == WorkflowJson(<<"c">>, PhoneOf(caller), caller, <<"m">>, <<"t">>, <<"a">>)
    IN  [id |-> id, name |-> body.name, nodes |-> body.nodes, active |-> FALSE]

InitTools ==
    /\ agent \in {[variant |-> v, session_id |-> "s1",
                   user |-> [id |-> "u1", name |-> "Ann"]] : v \in BackgroundVariants}
    /\ chat_ctx = <<>>
    /\ hook = [pc |-> "idle", turn |-> 0]
    /\ calls = <<>>
    /\ tasks = <<>>
    /\ inflight = {}
    /\ store = <<>>
    /\ issued = <<>>
    /\ raised = <<>>
    /\ JobIdle
    /\ LibIdle
    \* the automation service outlives a session: it starts empty, or holding
    \* one workflow scheduled and activated in an earlier session
    \* (created_for[id] records the user_id the workflow id was created with)
    /\ n8n \in {[workflows |-> <<>>, next_id |-> 1, removed |-> <<>>,
                  created_for |-> <<>>]}
               \cup {[workflows |-> <<[Created(1, c) EXCEPT !.active = TRUE]>>,
                      next_id |-> 2, removed |-> <<>>,
                      created_for |-> <<c>>] : c \in Identities}
    /\ inv = [i \in 1..MaxRunning |-> IdleSlot]
    /\ toollog = <<>>

(* ---------------------------------------------------------------- actions *)

\* The tool of slot i ends: it returns a value or raises.
Finish(i, r, outcome, result) ==
    /\ toollog' = Append(toollog,
                         [r EXCEPT !.pc = "done", !.outcome = outcome, !.result = result])
    /\ inv' = [inv EXCEPT ![i] = IdleSlot]

\* The dialogue engine calls a tool: the code up to the tool's first await.
ToolStart(i, tool, caller, arg) ==
    /\ inv[i].pc = "idle"
    /\ \A j \in 1..(i - 1) : inv[j].pc # "idle"
    /\ Started < MaxToolCalls
    \* workflow_id: an id the service has issued, or the next, not issued one
    /\ IF tool = "delete_scheduled_task" THEN arg \in 1..n8n.next_id ELSE arg = 0
    /\ LET r == [IdleSlot EXCEPT !.tool = tool, !.caller = caller, !.arg = arg,
                                 !.finished_before = Len(toollog)]
       IN  inv' = [inv EXCEPT ![i] =
                CASE tool = "web_search" ->
                       \* agents: await context.session.generate_reply(...) comes
                       \* first; main: the search call is the first statement
                       [r EXCEPT !.pc = IF agent.variant = "agents.CompanionAgent"
                                        THEN "announce" ELSE "search"]
                  [] tool \in {"get_local_time", "schedule_reminder_notification"} ->
                       [r EXCEPT !.pc = "rpc", !.rpcs = 1]
                  [] tool = "schedule_task" -> [r EXCEPT !.pc = "template"]
                  [] OTHER -> [r EXCEPT !.pc = "list"]]
    /\ UNCHANGED <<n8n, toollog>>
    /\ UNCHANGED <<ingestvars, jobvars, libvars>>

\* web_search of agents.CompanionAgent: generate_reply, outside the try block.
Announce(i, ok) ==
    /\ inv[i].pc = "announce"
    /\ IF ok
       THEN /\ inv' = [inv EXCEPT ![i].pc = "search"]
            /\ UNCHANGED toollog
       ELSE Finish(i, inv[i], "raised", None)
    /\ UNCHANGED <<n8n, ingestvars, jobvars, libvars>>

\* A web_search that relays the provider's answer whatever its status.
SearchUnchecked(i, status) ==
    /\ inv[i].pc = "search"
    /\ LET r == [inv[i] EXCEPT !.provider = status]
       IN  IF status = "error"
           THEN Finish(i, r, "returned", Fallback("web_search"))
           ELSE IF agent.variant = "agents.CompanionAgent"
                   /\ StartsWith(inv[i].caller, SipPrefix)
           THEN Finish(i, r, "returned", "json_data")
           ELSE /\ inv' = [inv EXCEPT ![i] = [r EXCEPT !.pc = "rpc", !.rpcs = 1]]
                /\ UNCHANGED toollog
    /\ UNCHANGED <<n8n, ingestvars, jobvars, libvars>>

\* web_search: the search provider answers, or the call fails.
SearchResponds(i, status) ==
    /\ inv[i].pc = "search"
    /\ LET r == [inv[i] EXCEPT !.provider = status]
       IN  IF status = "error"
           THEN Finish(i, r, "returned", Fallback("web_search"))
           ELSE IF status # "200"
           THEN Finish(i, r, "returned", MsgSearchFailed)
           ELSE IF agent.variant = "agents.CompanionAgent"
                   /\ StartsWith(inv[i].caller, SipPrefix)
           THEN Finish(i, r, "returned", "json_data")
           ELSE /\ inv' = [inv EXCEPT ![i] = [r EXCEPT !.pc = "rpc", !.rpcs = 1]]
                /\ UNCHANGED toollog
    /\ UNCHANGED <<n8n, ingestvars, jobvars, libvars>>

\* perform_rpc returns the remote participant's response.
RpcResponds(i) ==
    /\ inv[i].pc = "rpc"
    /\ Finish(i, inv[i], "returned", "rpc_result")
    /\ UNCHANGED <<n8n, ingestvars, jobvars, libvars>>

\* A tool that does not catch the error of perform_rpc.
RpcTimeoutUncaught(i) ==
    /\ inv[i].pc = "rpc"
    /\ Finish(i, [inv[i] EXCEPT !.rpc_failed = TRUE], "raised", None)
    /\ UNCHANGED <<n8n, ingestvars, jobvars, libvars>>

\* perform_rpc raises: no response within the response timeout.
RpcTimesOut(i) ==
    /\ inv[i].pc = "rpc"
    /\ Finish(i, [inv[i] EXCEPT !.rpc_failed = TRUE], "returned", Fallback(inv[i].tool))
    /\ UNCHANGED <<n8n, ingestvars, jobvars, libvars>>

\* create_scheduled_workflow: the template is read, substituted and parsed,
\* and the create call is issued.
TemplateRead(i, ok) ==
    /\ inv[i].pc = "template"
    /\ IF ok
       THEN /\ inv' = [inv EXCEPT ![i].pc = "create", ![i].creates = 1]
            /\ UNCHANGED toollog
       ELSE Finish(i, inv[i], "returned", Fallback("schedule_task"))
    /\ UNCHANGED <<n8n, ingestvars, jobvars, libvars>>

\* A create_scheduled_workflow that does not look at the create call's status.
CreateUnchecked(i, ok) ==
    /\ inv[i].pc = "create"
    /\ n8n' = IF ok
              THEN [n8n EXCEPT
                      !.workflows = Append(@, Created(n8n.next_id, inv[i].caller)),
                      !.next_id = @ + 1,
                      !.created_for = Append(@, inv[i].caller)]
              ELSE n8n
    /\ inv' = [inv EXCEPT ![i].pc = "activate",
                          ![i].created = n8n.next_id,
                          ![i].activations = 1,
                          ![i].replies = Append(@, IF ok THEN "create: 200"
                                                         ELSE "create: failed")]
    /\ UNCHANGED toollog
    /\ UNCHANGED <<ingestvars, jobvars, libvars>>

\* The automation service answers the create call.
CreateResponds(i, ok) ==
    /\ inv[i].pc = "create"
    /\ IF ok
       THEN     /\ n8n' = [n8n EXCEPT
                            !.workflows = Append(@, Created(n8n.next_id, inv[i].caller)),
                            !.next_id = @ + 1,
                            !.created_for = Append(@, inv[i].caller)]
                /\ inv' = [inv EXCEPT ![i].pc = "activate",
                                      ![i].created = n8n.next_id,
                                      ![i].activations = 1,
                                      ![i].replies = Append(@, "create: 200")]
                /\ UNCHANGED toollog
       ELSE /\ Finish(i, [inv[i] EXCEPT !.replies = Append(@, "create: failed")],
                      "returned", Fallback("schedule_task"))
            /\ UNCHANGED n8n
    /\ UNCHANGED <<ingestvars, jobvars, libvars>>

\* The workflows after the service activated the workflow of this id.
Activated(workflows, id) ==
    [k \in 1..Len(workflows) |->
        IF workflows[k].id = id THEN [workflows[k] EXCEPT !.active = TRUE]
                                ELSE workflows[k]]

\* A create_scheduled_workflow that does not look at the activation's status.
ActivateUnchecked(i, ok) ==
    /\ inv[i].pc = "activate"
    /\ n8n' = IF ok /\ Exists(inv[i].created)
              THEN [n8n EXCEPT !.workflows = Activated(@, inv[i].created)]
              ELSE n8n
    /\ Finish(i, [inv[i] EXCEPT !.replies =
                     Append(@, IF ok /\ Exists(inv[i].created)
                               THEN "activate: 200" ELSE "activate: failed")],
              "returned", MsgScheduled)
    /\ UNCHANGED <<ingestvars, jobvars, libvars>>

\* The automation service answers the activate call.
ActivateResponds(i, ok) ==
    /\ inv[i].pc = "activate"
    /\ IF ok /\ Exists(inv[i].created)
       THEN /\ n8n' = [n8n EXCEPT !.workflows = Activated(@, inv[i].created)]
            /\ Finish(i, [inv[i] EXCEPT !.replies = Append(@, "activate: 200")],
                      "returned", MsgScheduled)
       ELSE /\ Finish(i, [inv[i] EXCEPT !.replies = Append(@, "activate: failed")],
                      "returned", Fallback("schedule_task"))
            /\ UNCHANGED n8n
    /\ UNCHANGED <<ingestvars, jobvars, libvars>>

\* A delete that checks no ownership: every id passes.
InAnyWorkflowIds(workflow_id, user_workflows) == TRUE

\* delete_scheduled_task: workflow_id in [w.get("id") for w in user_workflows].
InWorkflowIds(workflow_id, user_workflows) ==
    workflow_id \in WorkflowIds(user_workflows)

\* A delete_scheduled_task that goes on to the delete call after a failed fetch.
ListUnchecked(i, ok) ==
    /\ inv[i].pc = "list"
    /\ LET user_workflows == FilterWorkflows(n8n.workflows, inv[i].caller)
           r == [inv[i] EXCEPT !.listed = TRUE, !.owned = WorkflowIds(user_workflows),
                               !.replies = Append(@, "list: 200")]
           f == [inv[i] EXCEPT !.replies = Append(@, "list: failed")]
       IN  IF ~ok /\ inv[i].tool = "delete_scheduled_task"
           THEN /\ inv' = [inv EXCEPT ![i] = [f EXCEPT !.pc = "delete", !.deletes = 1]]
                /\ UNCHANGED toollog
           ELSE IF ~ok
           THEN Finish(i, f, "returned", Fallback(inv[i].tool))
           ELSE IF inv[i].tool = "get_scheduled_tasks"
           THEN Finish(i, [r EXCEPT !.tasks =
                               [k \in 1..Len(user_workflows) |-> user_workflows[k].id]],
                       "returned", "tasks")
           ELSE IF ~InWorkflowIds(inv[i].arg, user_workflows)
           THEN Finish(i, r, "returned", MsgNotFound)
           ELSE /\ inv' = [inv EXCEPT ![i] = [r EXCEPT !.pc = "delete", !.deletes = 1]]
                /\ UNCHANGED toollog
    /\ UNCHANGED <<n8n, ingestvars, jobvars, libvars>>

\* get_user_workflows: the automation service answers the list call.
ListResponds(i, ok) ==
    /\ inv[i].pc = "list"
    /\ LET user_workflows == FilterWorkflows(n8n.workflows, inv[i].caller)
           r == [inv[i] EXCEPT !.listed = TRUE, !.owned = WorkflowIds(user_workflows),
                               !.replies = Append(@, "list: 200")]
       IN  IF ~ok
           THEN Finish(i, [inv[i] EXCEPT !.replies = Append(@, "list: failed")],
                       "returned", Fallback(inv[i].tool))
           ELSE IF inv[i].tool = "get_scheduled_tasks"
           THEN Finish(i, [r EXCEPT !.tasks =
                               [k \in 1..Len(user_workflows) |-> user_workflows[k].id]],
                       "returned", "tasks")
           ELSE IF ~InWorkflowIds(inv[i].arg, user_workflows)
           THEN Finish(i, r, "returned", MsgNotFound)
           ELSE /\ inv' = [inv EXCEPT ![i] = [r EXCEPT !.pc = "delete", !.deletes = 1]]
                /\ UNCHANGED toollog
    /\ UNCHANGED <<n8n, ingestvars, jobvars, libvars>>

\* A delete call that is answered 200 also when the workflow is gone.
DeleteIdempotent(i, ok) ==
    /\ inv[i].pc = "delete"
    /\ IF ok
       THEN /\ n8n' = [n8n EXCEPT
                        !.workflows = SelectSeq(@, LAMBDA w : w.id # inv[i].arg),
                        !.removed = Append(@, inv[i].arg)]
            /\ Finish(i, [inv[i] EXCEPT !.replies = Append(@, "delete: 200")],
                      "returned", MsgDeleted)
       ELSE /\ Finish(i, [inv[i] EXCEPT !.replies = Append(@, "delete: failed")],
                      "returned", Fallback("delete_scheduled_task"))
            /\ UNCHANGED n8n
    /\ UNCHANGED <<ingestvars, jobvars, libvars>>

\* delete_scheduled_workflow: the automation service answers the delete call.
DeleteResponds(i, ok) ==
    /\ inv[i].pc = "delete"
    /\ IF ok /\ Exists(inv[i].arg)
       THEN /\ n8n' = [n8n EXCEPT
                        !.workflows = SelectSeq(@, LAMBDA w : w.id # inv[i].arg),
                        !.removed = Append(@, inv[i].arg)]
            /\ Finish(i, [inv[i] EXCEPT !.replies = Append(@, "delete: 200")],
                      "returned", MsgDeleted)
       ELSE /\ Finish(i, [inv[i] EXCEPT !.replies = Append(@, "delete: failed")],
                      "returned", Fallback("delete_scheduled_task"))
            /\ UNCHANGED n8n
    /\ UNCHANGED <<ingestvars, jobvars, libvars>>

NextTools ==
    \/ \E i \in 1..MaxRunning, tool \in Tools, caller \in Identities,
          arg \in 0..MaxToolCalls : ToolStart(i, tool, caller, arg)
    \/ \E i \in 1..MaxRunning, ok \in BOOLEAN : Announce(i, ok)
    \/ \E i \in 1..MaxRunning, status \in {"200", "500", "error"} :
          SearchResponds(i, status)
    \/ \E i \in 1..MaxRunning : RpcResponds(i)
    \/ \E i \in 1..MaxRunning : RpcTimesOut(i)
    \/ \E i \in 1..MaxRunning, ok \in BOOLEAN : TemplateRead(i, ok)
    \/ \E i \in 1..MaxRunning, ok \in BOOLEAN : CreateResponds(i, ok)
    \/ \E i \in 1..MaxRunning, ok \in BOOLEAN : ActivateResponds(i, ok)
    \/ \E i \in 1..MaxRunning, ok \in BOOLEAN : ListResponds(i, ok)
    \/ \E i \in 1..MaxRunning, ok \in BOOLEAN : DeleteResponds(i, ok)

SpecTools == InitTools /\ [][NextTools]_vars

\* perform_rpc(response_timeout=...): the timeout of a pending RPC expires.
SpecToolsLive == SpecTools /\ \A i \in 1..MaxRunning : WF_vars(RpcTimesOut(i))

(* ================================================================== *)
(* Session entrypoint (src/main.py)                                     *)
(* ================================================================== *)

\* The connection identities of the participants that join.
EntryIdentities == {IdU1, IdSip}

\* identity[4:], the phone number of a 'sip_' identity.
PhoneNumber(identity) == SubSeq(identity, 5, Len(identity))

IdFamily == <<"f", "1">>

\* What GET /users/search?phoneNumber= answers: a user, or a family member
\* that refers to a user.
SearchReplies ==
    {[type |-> "user", id |-> IdU1, userId |-> <<>>],
     [type |-> "family_member", id |-> IdFamily, userId |-> IdU1]}

\* user = None
NoUser == [id |-> <<>>, name |-> None]

\* The memory-store context of the most recent session: none, empty, a summary.
Contexts == {None, "", "ctx"}

\* attributes.get("initialRequest"): absent, empty, a request.
InitialRequests == {None, "", "req"}

\* The session ids uuid4() can give.
SessionUuids == {"s1", "s2"}

\* What a request of get_api_data ends in: a status, or a transport error.
HttpOutcomes == {"200", "404", "500", "error"}

\* A gateway that raises for a transport error only and returns the body of
\* any response.
RaisesForTransportError(status) == status = "error"

\* get_api_data: client.request raises for a transport error, and
\* response.raise_for_status() for an error status.
RaisesForStatus(status) == status # "200"

\* No agent is constructed yet.
\* response.json() of the user lookup: a user record, or null.
UserBodies == {"record", "null"}

NoAgent == [variant |-> None, session_id |-> None, user |-> NoUser]

\* A remote call is issued, has returned, or has raised.
Event(ev, call, arg) == [ev |-> ev, call |-> call, arg |-> arg]

InitEntry ==
    /\ job = [pc |-> "connect", identity |-> <<>>, initial_request |-> None, http |-> <<>>,
              is_family_member |-> FALSE, user_id |-> <<>>, user |-> NoUser,
              user_context |-> None, session_id |-> None, failed |-> None,
              search_type |-> None,
              trace |-> <<Event("issue", "connect", <<>>)>>]
    /\ agent = NoAgent
    /\ LibIdle
    /\ chat_ctx = <<>>
    /\ hook = [pc |-> "idle", turn |-> 0]
    /\ calls = <<>>
    /\ tasks = <<>>
    /\ inflight = {}
    /\ store = <<>>
    /\ issued = <<>>
    /\ raised = <<>>
    /\ n8n = [workflows |-> <<>>, next_id |-> 1, removed |-> <<>>, created_for |-> <<>>]
    /\ inv = [i \in 1..MaxRunning |-> IdleSlot]
    /\ toollog = <<>>

\* An entrypoint that issues a failed call again.
Retried(call) ==
    [job EXCEPT !.trace = @ \o <<Event("raised", call, <<>>),
                                 Event("issue", call, <<>>)>>]

\* The awaited call raises: the exception leaves entrypoint, the job ends.
Aborted(call) ==
    [job EXCEPT !.pc = "aborted", !.failed = call,
                !.trace = Append(@, Event("raised", call, <<>>))]

\* The awaited call returns and the code runs to its next call.
Continue(call, next, arg) ==
    [job EXCEPT !.pc = next,
                !.trace = @ \o <<Event("returned", call, <<>>),
                                 Event("issue", next, arg)>>]

EntryFrame ==
    UNCHANGED <<hook, calls, tasks, inflight, store, issued, raised, toolvars, libvars>>

\* await ctx.connect()
Connect(ok) ==
    /\ job.pc = "connect"
    /\ job' = IF ok THEN Continue("connect", "wait_for_participant", <<>>)
                    ELSE Aborted("connect")
    /\ UNCHANGED <<agent, chat_ctx>>
    /\ EntryFrame

\* get_api_data: a new httpx.AsyncClient sends one request, which ends in status.
Gateway(j, call, status) ==
    [j EXCEPT !.http = Append(@, [call |-> call, status |-> status,
                                  client |-> Len(job.http) + 1])]

\* await ctx.wait_for_participant(), up to the first directory lookup.
ParticipantJoins(identity, initial_request) ==
    /\ job.pc = "wait_for_participant"
    /\ LET sip == StartsWith(identity, SipPrefix)
           j == Continue("wait_for_participant",
                         IF sip THEN "search" ELSE "get_user",
                         IF sip THEN PhoneNumber(identity) ELSE identity)
       IN  job' = [j EXCEPT !.identity = identity, !.user_id = identity,
                            !.initial_request = initial_request]
    /\ UNCHANGED <<agent, chat_ctx>>
    /\ EntryFrame

\* An entrypoint that fetches the user record for a family member too.
FetchesUserAlways(is_family_member) == TRUE

\* if not is_family_member: the user record and the user context are fetched.
FetchesUser(is_family_member) == ~is_family_member

\* get_api_data("/users/search?phoneNumber=...") of a 'sip_' participant.
DirectorySearchResponds(status, reply) ==
    /\ job.pc = "search"
    /\ job' = Gateway(
                IF RaisesForStatus(status) THEN Aborted("search")
                ELSE LET is_family_member == reply.type = "family_member"
                         user_id == IF is_family_member THEN reply.userId ELSE reply.id
                     IN  [Continue("search",
                                   IF FetchesUser(is_family_member)
                                   THEN "get_user" ELSE "add_session",
                                   user_id)
                             EXCEPT !.is_family_member = is_family_member,
                                    !.user_id = user_id,
                                    !.search_type = reply.type],
                "search", status)
    /\ UNCHANGED <<agent, chat_ctx>>
    /\ EntryFrame

\* get_api_data("/users/{user_id}"), then zep.user.get_sessions is called.
GetUserResponds(status, body) ==
    /\ job.pc = "get_user"
    /\ job' = Gateway(
                IF RaisesForStatus(status) THEN Aborted("get_user")
                ELSE IF body = "null"
                THEN \* user = None: user["id"] raises before get_sessions is called
                     [job EXCEPT !.pc = "aborted", !.failed = "user_id",
                                 !.trace = @ \o <<Event("returned", "get_user", <<>>),
                                                  Event("raised", "user_id", <<>>)>>]
                ELSE [Continue("get_user", "get_sessions", job.user_id)
                         EXCEPT !.user = [id |-> job.user_id, name |-> "Ann"]],
                "get_user", status)
    /\ UNCHANGED <<agent, chat_ctx>>
    /\ EntryFrame

\* zep.user.get_sessions returns the subject's sessions.
GetSessionsResponds(ok, sessions) ==
    /\ job.pc = "get_sessions"
    /\ job' = IF ~ok THEN Aborted("get_sessions")
              ELSE [Continue("get_sessions",
                             IF sessions > 0 THEN "memory_get" ELSE "add_session",
                             IF sessions > 0 THEN <<>> ELSE job.user.id)
                       EXCEPT !.user_id = job.user.id]
    /\ UNCHANGED <<agent, chat_ctx>>
    /\ EntryFrame

\* zep.memory.get of the most recent session.
MemoryGetResponds(ok, context) ==
    /\ job.pc = "memory_get"
    /\ job' = IF ~ok THEN Aborted("memory_get")
              ELSE [Continue("memory_get", "add_session", job.user_id)
                       EXCEPT !.user_context = context]
    /\ UNCHANGED <<agent, chat_ctx>>
    /\ EntryFrame

\* An initial context that puts the request block first.
InitialContextRequestFirst(user_context, initial_request) ==
    (IF Truthy(initial_request)
     THEN <<[role |-> "user", text_content |-> initial_request]>> ELSE <<>>)
    \o (IF Truthy(user_context)
        THEN <<[role |-> "user", text_content |-> user_context]>> ELSE <<>>)

\* An initial context that leaves a block out only when its value is None.
InitialContextNotNone(user_context, initial_request) ==
    (IF user_context # None
     THEN <<[role |-> "user", text_content |-> user_context]>> ELSE <<>>)
    \o (IF initial_request # None
        THEN <<[role |-> "user", text_content |-> initial_request]>> ELSE <<>>)

\* The initial chat context: the user_context block, then the request block.
InitialContext(user_context, initial_request) ==
    (IF Truthy(user_context)
     THEN <<[role |-> "user", text_content |-> user_context]>> ELSE <<>>)
    \o (IF Truthy(initial_request)
        THEN <<[role |-> "user", text_content |-> initial_request]>> ELSE <<>>)

\* zep.memory.add_session returns; the context and the agent are built and
\* session.start is called.
AddSessionResponds(ok, uuid) ==
    /\ job.pc = "add_session"
    /\ IF ~ok
       THEN /\ job' = Aborted("add_session")
            /\ UNCHANGED <<agent, chat_ctx>>
       ELSE /\ job' = [Continue("add_session", "start", <<>>)
                          EXCEPT !.session_id = uuid]
            /\ chat_ctx' = InitialContext(job.user_context, job.initial_request)
            /\ agent' = IF job.is_family_member
                        THEN [variant |-> "main.OnboardingAgent",
                              session_id |-> uuid, user |-> NoUser]
                        ELSE [variant |-> "main.Companion",
                              session_id |-> uuid, user |-> job.user]
    /\ EntryFrame

\* An entrypoint that greets whether or not session.start succeeded.
SessionStartUnchecked(ok) ==
    /\ job.pc = "start"
    /\ job' = [job EXCEPT !.pc = "greeting",
                          !.trace = @ \o <<Event(IF ok THEN "returned" ELSE "raised",
                                                 "start", <<>>),
                                           Event("issue", "greeting", <<>>)>>]
    /\ UNCHANGED <<agent, chat_ctx>>
    /\ EntryFrame

\* await session.start(agent=agent, room=ctx.room, ...)
SessionStartResponds(ok) ==
    /\ job.pc = "start"
    /\ job' = IF ok THEN Continue("start", "greeting", <<>>) ELSE Aborted("start")
    /\ UNCHANGED <<agent, chat_ctx>>
    /\ EntryFrame

\* await session.generate_reply(instructions="Greet the user ...")
GreetingResponds(ok) ==
    /\ job.pc = "greeting"
    /\ job' = IF ok
              THEN [job EXCEPT !.pc = "dialogue",
                               !.trace = Append(@, Event("returned", "greeting", <<>>))]
              ELSE Aborted("greeting")
    /\ UNCHANGED <<agent, chat_ctx>>
    /\ EntryFrame

NextEntry ==
    \/ \E ok \in BOOLEAN : Connect(ok)
    \/ \E identity \in EntryIdentities, initial_request \in InitialRequests :
          ParticipantJoins(identity, initial_request)
    \/ \E status \in HttpOutcomes, reply \in SearchReplies :
          DirectorySearchResponds(status, reply)
    \/ \E status \in HttpOutcomes, body \in UserBodies : GetUserResponds(status, body)
    \/ \E ok \in BOOLEAN, sessions \in 0..1 : GetSessionsResponds(ok, sessions)
    \/ \E ok \in BOOLEAN, context \in Contexts : MemoryGetResponds(ok, context)
    \/ \E ok \in BOOLEAN, uuid \in SessionUuids : AddSessionResponds(ok, uuid)
    \/ \E ok \in BOOLEAN : SessionStartResponds(ok)
    \/ \E ok \in BOOLEAN : GreetingResponds(ok)

SpecEntry == InitEntry /\ [][NextEntry]_vars

\* The dialogue of the session the entrypoint started: the engine calls the
\* agent's hook and the ingestion runs.
DialogueActive == job.pc = "dialogue"

NextSession ==
    \/ NextEntry
    \/ \E text \in AssistantTexts : DialogueActive /\ AssistantTurn(text)
    \/ \E role \in Roles, text \in UserTexts :
          DialogueActive /\ OnUserTurnCompleted([role |-> role, text_content |-> text])
    \/ DialogueActive /\ TaskStart
    \/ \E c \in inflight : DialogueActive /\ AddReturns(c)
    \/ \E c \in inflight : DialogueActive /\ AddRaises(c)

SpecSession == InitEntry /\ [][NextSession]_vars

\* An agent class whose every instance carries the companion's tools.
ToolsOfAnyAgent(variant) == Tools

\* The function tools an agent class defines: the six of the companion
\* classes, none of the onboarding classes.
ToolsOf(variant) ==
    IF variant \in {"main.Companion", "agents.CompanionAgent"} THEN Tools ELSE {}

\* The job of one room followed by its dialogue, in which the dialogue engine
\* calls the tools of the agent the session was started with, for the
\* participant that joined.
NextCalls ==
    \/ NextEntry
    \/ \E i \in 1..MaxRunning, tool \in ToolsOf(agent.variant), arg \in 0..MaxToolCalls :
          DialogueActive /\ ToolStart(i, tool, job.identity, arg)
    \/ \E i \in 1..MaxRunning, status \in {"200", "500", "error"} :
          SearchResponds(i, status)
    \/ \E i \in 1..MaxRunning : RpcResponds(i)
    \/ \E i \in 1..MaxRunning : RpcTimesOut(i)
    \/ \E i \in 1..MaxRunning, ok \in BOOLEAN : TemplateRead(i, ok)
    \/ \E i \in 1..MaxRunning, ok \in BOOLEAN : CreateResponds(i, ok)
    \/ \E i \in 1..MaxRunning, ok \in BOOLEAN : ActivateResponds(i, ok)
    \/ \E i \in 1..MaxRunning, ok \in BOOLEAN : ListResponds(i, ok)
    \/ \E i \in 1..MaxRunning, ok \in BOOLEAN : DeleteResponds(i, ok)

SpecCalls == InitEntry /\ [][NextCalls]_vars

(* ------------------------------------------------- claims on tool dispatch *)

\* The invocations of a tool, finished or still running.
Invocations ==
    Range(toollog) \cup {inv[i] : i \in {j \in DOMAIN inv : inv[j].pc # "idle"}}

\* A delete_scheduled_task whose list call answered and whose workflow id
\* is not in the caller's filtered list.
RefusedDeletes ==
    {r \in Invocations : /\ r.tool = "delete_scheduled_task"
                         /\ r.listed
                         /\ r.arg \notin r.owned}

\* C11: a delete_scheduled_task whose workflow id is not in the caller's own
\* filtered list issues no delete call and, once it has returned, has
\* returned the 'not found' message; this holds for every such invocation,
\* a repeated one included.
C11_NotOwnedNotDeleted ==
    \A r \in RefusedDeletes :
        /\ r.deletes = 0
        /\ r.pc # "delete"
        /\ r.pc = "done" => r.outcome = "returned" /\ r.result = MsgNotFound

\* C11 witness: the same caller asked twice to delete the same workflow,
\* which exists but is not in its filtered list; both were refused.
C11_Witness ==
    /\ Len(toollog) = 2
    /\ toollog[1] \in RefusedDeletes /\ toollog[2] \in RefusedDeletes
    /\ toollog[1].caller = toollog[2].caller
    /\ toollog[1].arg = toollog[2].arg
    /\ Exists(toollog[1].arg)
    /\ toollog[1].result = MsgNotFound /\ toollog[2].result = MsgNotFound
    /\ n8n.removed = <<>>

\* C12: each scheduled task is owned by exactly one subject: a workflow in
\* the filtered list that get_user_workflows gave a caller was created with
\* that caller's identifier, and a caller issues a delete call only for a
\* workflow created with its own identifier.
C12_OwnedByOneSubject ==
    \A r \in Invocations :
        /\ r.listed => \A id \in r.owned : n8n.created_for[id] = r.caller
        /\ r.deletes > 0 => n8n.created_for[r.arg] = r.caller

\* The schedule_task invocations that have returned.
Scheduled == {r \in Range(toollog) : r.tool = "schedule_task"}

\* C13: schedule_task returns the success string only when the create call
\* and the activation call both succeeded; when the create call succeeded
\* and the activation call failed it returns the error string, and it has
\* issued no delete call: the workflow it created is left in the automation
\* service, inactive.
C13_CompleteOnlyWhenActivated ==
    \A r \in Scheduled :
        /\ r.outcome = "returned"
        /\ r.result = MsgScheduled <=> r.replies = <<"create: 200", "activate: 200">>
        /\ r.result # MsgScheduled => r.result = MsgScheduleError
        /\ r.replies = <<"create: 200", "activate: failed">> =>
              /\ r.deletes = 0
              /\ \A k \in 1..Len(n8n.workflows) :
                    n8n.workflows[k].id = r.created => ~n8n.workflows[k].active

\* C13 witness: a schedule_task whose create call succeeded and whose
\* activation call failed has returned the error string, and the workflow
\* is still in the automation service.
C13_Witness ==
    \E r \in Scheduled :
        /\ r.replies = <<"create: 200", "activate: failed">>
        /\ r.result = MsgScheduleError
        /\ Exists(r.created)

\* C14: every tool of the companion agent returns a value and never
\* raises, whichever of its steps fails.
C14_ToolsNeverRaise ==
    \A r \in Range(toollog) : r.outcome = "returned" /\ r.result # None

\* C16: web_search issues no client RPC for a participant whose identity
\* starts with 'sip_', in every companion agent implementation; when the
\* search succeeded it returns the search result itself.
C16_NoRpcForTelephony ==
    \A r \in Invocations :
        r.tool = "web_search" /\ StartsWith(r.caller, SipPrefix) =>
            /\ r.rpcs = 0
            /\ r.pc = "done" /\ r.provider = "200" => r.result = "json_data"

\* The invocations whose client RPC got no response within the timeout.
TimedOut == {r \in Range(toollog) : r.rpc_failed}

Issued(call) ==
    \E k \in 1..Len(job.trace) : job.trace[k].ev = "issue" /\ job.trace[k].call = call

Returned(call) == Event("returned", call, <<>>) \in Range(job.trace)

Raised(call) == Event("raised", call, <<>>) \in Range(job.trace)

\* The caller is a telephony participant.
Telephony == StartsWith(job.identity, SipPrefix)

\* The directory lookups of identity resolution.
Lookups == {"search", "get_user"}

\* C17: for a 'sip_' caller a failed directory lookup does not abort the
\* entrypoint: the subject is a synthetic one, with a non-empty placeholder
\* name and the raw identifier as id.
C17_TelephonyLookupDegrades ==
    Telephony /\ (\E call \in Lookups : Raised(call)) =>
        /\ job.pc # "aborted"
        /\ job.user.name \notin {None, ""}
        /\ job.user.id = job.identity

\* C18: a failed subject lookup of a non-telephony caller aborts the
\* entrypoint before add_session is called, before an agent is constructed
\* and before session.start; and no other failed lookup of identity
\* resolution aborts it.
C18_OnlyAppLookupFatal ==
    /\ ~Telephony /\ Raised("get_user") =>
          /\ job.pc = "aborted"
          /\ ~Issued("add_session") /\ ~Issued("start")
          /\ agent = NoAgent
    /\ job.pc = "aborted" /\ job.failed \in Lookups => ~Telephony

\* C19: when the phone-number lookup returned a family_member record the
\* caller is a delegate, and by the time the memory-store session is
\* created the subject record has been fetched by the record's userId and
\* the session is keyed by that id, not by the connection identity.
C19_DelegateSubjectFetched ==
    job.search_type = "family_member" =>
        /\ job.is_family_member
        /\ Issued("add_session") =>
              /\ Event("issue", "get_user", IdU1) \in Range(job.trace)
              /\ Event("issue", "add_session", IdU1) \in Range(job.trace)
              /\ job.identity # IdU1

\* The four context fetches: the prior-memory summary (get_sessions, then
\* memory_get), the people list, the upcoming events, the session creation.
ContextFetches == {"get_sessions", "people", "events", "add_session"}

\* C20: for a non-delegate subject, when the entrypoint has waited for one
\* of the four context fetches, all four have been issued.
C20_FetchesIssuedBeforeWait ==
    ~job.is_family_member =>
        \A call \in ContextFetches :
            Returned(call) \/ Raised(call) =>
                \A other \in ContextFetches : Issued(other)

\* C21: a failure of the prior-memory summary fetch (get_sessions or
\* memory_get), of the people fetch or of the events fetch does not abort
\* the entrypoint, and leaves the session without that context block.
C21_FetchFailureNotFatal ==
    (\E call \in {"get_sessions", "memory_get", "people", "events"} : Raised(call)) =>
        /\ job.pc # "aborted"
        /\ ~Truthy(job.user_context)

\* C22: a failure of add_session does not abort the entrypoint: the agent
\* is constructed with a null session id and the dialogue starts.
C22_SessionCreationFailureNotFatal ==
    Raised("add_session") =>
        /\ job.pc # "aborted"
        /\ Issued("start") => agent # NoAgent /\ agent.session_id = None

\* The memory block is in the initial context.
HasMemoryBlock == \E k \in 1..Len(chat_ctx) : chat_ctx[k].text_content = "ctx"

\* The request block is in the initial context.
HasRequestBlock == \E k \in 1..Len(chat_ctx) : chat_ctx[k].text_content = "req"

\* C23: for a family-member caller the entrypoint issues no user record
\* fetch, no prior-memory fetch, no people fetch and no events fetch: after
\* the phone-number search it creates the memory-store session only, and
\* the initial context holds no prior-memory block.
C23_DelegateSessionCreationOnly ==
    job.is_family_member =>
        /\ \A call \in {"get_user", "get_sessions", "memory_get", "people", "events"} :
              ~Issued(call)
        /\ job.pc # "aborted" => Issued("add_session")
        /\ job.user = NoUser /\ job.user_context = None
        /\ ~HasMemoryBlock

\* C23 witness: a family-member caller has reached the dialogue with a
\* session created and the request block as the whole initial context.
C23_Witness ==
    /\ job.is_family_member
    /\ job.pc = "dialogue"
    /\ Returned("add_session")
    /\ chat_ctx = <<[role |-> "user", text_content |-> "req"]>>

\* The place of a block in the order skills, memory, people, events, request.
BlockRank(message) ==
    CASE message.text_content = "skills" -> 1
      [] message.text_content = "ctx" -> 2
      [] message.text_content = "people" -> 3
      [] message.text_content = "events" -> 4
      [] OTHER -> 5

C25_BlockIffData ==
    job.pc \in {"start", "greeting", "dialogue"} =>
        /\ HasMemoryBlock <=> Truthy(job.user_context)
        /\ HasRequestBlock <=> Truthy(job.initial_request)
        /\ \A k \in 1..Len(chat_ctx) : Truthy(chat_ctx[k].text_content)
        /\ Len(chat_ctx) = (IF Truthy(job.user_context) THEN 1 ELSE 0)
                           + (IF Truthy(job.initial_request) THEN 1 ELSE 0)

\* C25 witness: the memory store gave an empty context and the participant
\* a request: the initial context is the request block alone.
C25_Witness ==
    /\ job.pc = "dialogue"
    /\ job.user_context = "" /\ job.initial_request = "req"
    /\ Returned("memory_get")
    /\ chat_ctx = <<[role |-> "user", text_content |-> "req"]>>

\* How many times the entrypoint has issued this call.
IssueCount(call) ==
    Cardinality({k \in 1..Len(job.trace) :
                    job.trace[k].ev = "issue" /\ job.trace[k].call = call})

\* The calls of the entrypoint, in the order of the code.
Steps ==
    {"connect", "wait_for_participant", "search", "get_user", "get_sessions",
     "memory_get", "add_session", "start", "greeting"}

\* C26: the lifecycle is sequential and not retried: session.start is
\* called only after the connection is made, the participant's identity
\* is resolved and add_session has returned; each step is issued at most
\* once; and a step that fails before the dialogue is active aborts the job
\* with no dialogue session started.
C26_SequentialNoRetry ==
    /\ \A call \in Steps : IssueCount(call) <= 1
    /\ Issued("start") =>
          /\ Returned("connect") /\ Returned("wait_for_participant")
          /\ Telephony => Returned("search")
          /\ ~job.is_family_member => Returned("get_user") /\ Returned("get_sessions")
          /\ Returned("add_session")
          /\ agent # NoAgent
    /\ \A call \in Steps \ {"greeting"} :
          Raised(call) => /\ job.pc = "aborted"
                          /\ ~Returned("start")
                          /\ ~Issued("greeting")

\* C26 witness: a telephony session went through every step and failed at
\* session.start: the job is aborted with no greeting issued.
C26_Witness ==
    /\ Telephony
    /\ Returned("search") /\ Returned("get_user") /\ Returned("memory_get")
    /\ Returned("add_session")
    /\ Raised("start")
    /\ job.pc = "aborted"

\* C27: the greeting instruction is issued at most once, and exactly once
\* when session.start has returned; it is not issued before that, nor when
\* session.start failed.
C27_OneGreetingAfterStart ==
    /\ IssueCount("greeting") <= 1
    /\ Issued("greeting") <=> Returned("start")
    /\ Raised("start") => ~Issued("greeting")

\* C27 witness: the dialogue session started and the one greeting was made.
C27_Witness ==
    /\ job.pc = "dialogue"
    /\ Returned("start") /\ Returned("greeting")
    /\ IssueCount("greeting") = 1

\* C28: one memory-store session is created per connection, before the
\* dialogue starts; the agent keeps the id of that session, and every add
\* call of the ingestion is made with that id and no other.
C28_OneSessionAllAddsToIt ==
    /\ IssueCount("add_session") <= 1
    /\ Issued("start") => Returned("add_session") /\ job.session_id \in SessionUuids
    /\ agent # NoAgent => agent.session_id = job.session_id
    /\ issued # <<>> => Returned("start")
    /\ \A c \in Range(issued) \cup Range(store) \cup inflight :
          c.session_id = job.session_id

\* C28 witness: the session was created with the second id and an add of
\* the ingestion has been stored under it.
C28_Witness ==
    /\ job.session_id = "s2"
    /\ store # <<>>
    /\ store[1].session_id = "s2"

\* The HTTP requests get_api_data has sent for this call.
Requests(call) == {k \in 1..Len(job.http) : job.http[k].call = call}

C30_OneClientInstance ==
    \A k, l \in 1..Len(job.http) : job.http[k].client = job.http[l].client

(* ------------------------------------------------- lib/n8n.py on its own *)

\* One more than the number of pieces a workflow template is made of.
MaxPieces == 2

\* The number of workflows of a fetched collection, and of nodes of a workflow.
MaxWorkflows == 2

MaxNodes == 2

\* The pieces of the text of a workflow template: the six placeholder tokens
\* and literal text, with and without a brace.
TemplatePieces == Placeholders \cup {<<"/">>, <<"{">>}

RECURSIVE Concatenations(_)
Concatenations(n) ==
    IF n = 0 THEN {<<>>}
    ELSE {piece \o text : piece \in TemplatePieces, text \in Concatenations(n - 1)}

\* The texts get_workflow_template can return.
Templates ==
    UNION {Concatenations(n) : n \in 1..MaxPieces} \cup {Template.nodes[2]}

\* The values of a field of create_scheduled_workflow: plain text, and text
\* holding the opening or the closing part of a token.
FieldValues == {<<"x">>, <<"{", "{", "$json.cron">>, <<"}", "}">>}

\* node["parameters"] of a node of a fetched workflow.
NodeParameters == {<<"/">> \o IdU1, <<"/">> \o IdU12, <<"x">>, NoParameters}

\* response.json()["data"] of get_user_workflows: workflows with their nodes.
RECURSIVE NodeLists(_)
NodeLists(n) ==
    IF n = 0 THEN {<<>>}
    ELSE {<<node>> \o nodes : node \in NodeParameters, nodes \in NodeLists(n - 1)}

RECURSIVE Collections(_)
Collections(n) ==
    IF n = 0 THEN {<<>>}
    ELSE {workflows \o <<[id |-> n, nodes |-> nodes]>> :
            workflows \in Collections(n - 1),
            nodes \in UNION {NodeLists(m) : m \in 0..MaxNodes}}

\* A call of create_scheduled_workflow up to the substituted text, or of
\* get_user_workflows after a successful fetch.
Evaluation(op, template, cron, phone_number, user_id, message, title, api, workflows) ==
    [pc |-> "called", op |-> op, template |-> template, cron |-> cron,
     phone_number |-> phone_number, user_id |-> user_id, message |-> message,
     title |-> title, api |-> api, workflows |-> workflows,
     payload |-> <<>>, user_workflows |-> <<>>]

InitLib ==
    /\ agent = NoAgent
    /\ chat_ctx = <<>>
    /\ hook = [pc |-> "idle", turn |-> 0]
    /\ calls = <<>>
    /\ tasks = <<>>
    /\ inflight = {}
    /\ store = <<>>
    /\ issued = <<>>
    /\ raised = <<>>
    /\ ToolsIdle
    /\ JobIdle
    /\ \/ \E template \in Templates :
          \E cron, phone_number, user_id, message, title, api \in FieldValues :
             fn = Evaluation("create_scheduled_workflow", template, cron, phone_number,
                             user_id, message, title, api, <<>>)
       \/ \E user_id \in {IdU1, IdU12} :
          \E workflows \in UNION {Collections(n) : n \in 0..MaxWorkflows} :
             fn = Evaluation("get_user_workflows", <<>>, <<>>, <<>>, user_id, <<>>,
                             <<>>, <<>>, workflows)

LibFrame == UNCHANGED <<ingestvars, toolvars, jobvars>>

\* workflow_template.replace(...).replace(...)...
SubstituteTemplate ==
    /\ fn.pc = "called"
    /\ fn.op = "create_scheduled_workflow"
    /\ fn' = [fn EXCEPT !.pc = "returned",
                        !.payload = Substitute(fn.template, fn.cron, fn.phone_number,
                                               fn.user_id, fn.message, fn.title, fn.api)]
    /\ LibFrame

\* user_workflows = []; for workflow in workflows: ...; return user_workflows
FilterUserWorkflows ==
    /\ fn.pc = "called"
    /\ fn.op = "get_user_workflows"
    /\ fn' = [fn EXCEPT !.pc = "returned",
                        !.user_workflows = FilterWorkflows(fn.workflows, fn.user_id)]
    /\ LibFrame

NextLib == SubstituteTemplate \/ FilterUserWorkflows

SpecLib == InitLib /\ [][NextLib]_vars

(* -------------------------------------------------- claims on lib/n8n.py *)

\* The text holds one of the six placeholder tokens.
HasPlaceholder(text) == \E token \in Placeholders : Contains(text, token)

\* Every "{{" of the template opens one of the six placeholder tokens.
UsesOnlyPlaceholders(text) ==
    \A k \in 1..(Len(text) - 1) :
        (text[k] = "{" /\ text[k + 1] = "{")
            => \E token \in Placeholders :
                  /\ k + Len(token) - 1 <= Len(text)
                  /\ SubSeq(text, k, k + Len(token) - 1) = token

FieldsOf(e) == {e.cron, e.phone_number, e.user_id, e.message, e.title, e.api}

Substituted ==
    /\ fn.pc = "returned"
    /\ fn.op = "create_scheduled_workflow"
    /\ UsesOnlyPlaceholders(fn.template)

Filtered == fn.pc = "returned" /\ fn.op = "get_user_workflows"

\* The number of times the workflow is in the returned list.
Occurrences(workflow) ==
    Cardinality({j \in 1..Len(fn.user_workflows) : fn.user_workflows[j] = workflow})

\* C32: get_user_workflows returns exactly the workflows of the fetched
\* collection that have a node with parameters whose serialized form contains
\* the caller's identifier, each of them once however many of its nodes
\* match, in the order of the fetched collection.
C32_ExactlyMatchingOnceInOrder ==
    Filtered =>
        /\ \A k \in 1..Len(fn.workflows) :
              Occurrences(fn.workflows[k]) =
                  IF WorkflowMatches(fn.workflows[k], fn.user_id) THEN 1 ELSE 0
        /\ \A j \in 1..Len(fn.user_workflows) :
              \E k \in 1..Len(fn.workflows) : fn.user_workflows[j] = fn.workflows[k]
        /\ \A i, j \in 1..Len(fn.user_workflows) :
              i < j => fn.user_workflows[i].id < fn.user_workflows[j].id

\* Both workflows of a collection were returned in their order, the first of
\* them with two matching nodes.
C32_Witness ==
    /\ Filtered
    /\ Len(fn.workflows) = 2
    /\ fn.user_workflows = fn.workflows
    /\ Len(fn.workflows[1].nodes) = 2
    /\ \A k \in 1..2 : NodeMatches(fn.workflows[1].nodes[k], fn.user_id)

(* ------------------------------------- claims on the automation-service tools *)

\* The schedule_task invocations, running and finished.
Scheduling == {r \in Invocations : r.tool = "schedule_task"}

\* C33: in create_scheduled_workflow the activation call is issued at most
\* once and only after the create call returned 200; after a failed create
\* call, or a template that could not be read or parsed, no activation call
\* is issued and no workflow was created or activated.
C33_ActivationOnlyAfterCreate ==
    \A r \in Scheduling :
        /\ r.activations <= 1
        /\ r.activations = 1 =>
              /\ r.creates = 1
              /\ Len(r.replies) >= 1
              /\ r.replies[1] = "create: 200"
        /\ (r.pc = "done" /\ (r.creates = 0 \/ r.replies[1] = "create: failed")) =>
              /\ r.activations = 0
              /\ r.created = 0
              /\ \A k \in 1..Len(r.replies) : r.replies[k] # "activate: 200"

\* A create call failed, and a template could not be read: each returned the
\* error string without an activation call.
C33_Witness ==
    /\ \E r \in Scheduled :
          r.replies = <<"create: failed">> /\ r.activations = 0
             /\ r.result = MsgScheduleError
    /\ \E r \in Scheduled :
          r.creates = 0 /\ r.activations = 0 /\ r.result = MsgScheduleError

\* The delete_scheduled_task invocations, running and finished.
Deleting == {r \in Invocations : r.tool = "delete_scheduled_task"}

\* C34: in delete_scheduled_task a delete call is issued only after the fetch
\* of the workflow collection succeeded in the same invocation with the
\* target id in the caller's filtered set; after a failed fetch no delete
\* call is issued and the tool returns the error string.
C34_DeleteOnlyAfterOwnedFetch ==
    \A r \in Deleting :
        /\ r.deletes >= 1 =>
              /\ r.listed
              /\ r.replies[1] = "list: 200"
              /\ r.arg \in r.owned
        /\ (r.pc = "done" /\ r.replies[1] = "list: failed") =>
              /\ r.deletes = 0
              /\ r.replies = <<"list: failed">>
              /\ r.outcome = "returned"
              /\ r.result = MsgDeleteError

\* One delete_scheduled_task stopped at a failed fetch, another went on to a
\* delete call after a fetch that held its target.
C34_Witness ==
    /\ \E r \in Range(toollog) :
          /\ r.tool = "delete_scheduled_task"
          /\ r.replies = <<"list: failed">>
          /\ r.deletes = 0
          /\ r.result = MsgDeleteError
    /\ \E r \in Range(toollog) :
          /\ r.tool = "delete_scheduled_task"
          /\ r.replies = <<"list: 200", "delete: 200">>
          /\ r.deletes = 1

\* The finished delete_scheduled_task invocations for this id that issued a
\* delete call, by their place in the log.
DeleteCalls(id) ==
    {k \in 1..Len(toollog) :
        /\ toollog[k].tool = "delete_scheduled_task"
        /\ toollog[k].arg = id
        /\ toollog[k].deletes = 1}

Follows(k, l) ==
    /\ k \in 1..Len(toollog)
    /\ l \in 1..Len(toollog)
    /\ toollog[l].finished_before >= k
    /\ toollog[l].caller = toollog[k].caller

ListedTasks(l) ==
    /\ toollog[l].tool = "get_scheduled_tasks"
    /\ toollog[l].result = "tasks"

Searching == {r \in Invocations : r.tool = "web_search"}

\* C39: when the search provider answers web_search with a status other than
\* 200, the tool returns the "Web search failed: <status>" string and issues
\* no client RPC; a client RPC is issued only after the provider answered 200.
C39_NoRpcAfterFailedSearch ==
    \A r \in Searching :
        /\ r.provider = "500" =>
              /\ r.pc = "done"
              /\ r.outcome = "returned"
              /\ r.result = MsgSearchFailed
              /\ r.rpcs = 0
        /\ r.rpcs >= 1 => r.provider = "200"

\* The provider answered one web_search with status 500 and another with
\* status 200: the first returned the failure string, the second went on to
\* the client RPC.
C39_Witness ==
    /\ \E r \in Searching :
          r.provider = "500" /\ r.result = MsgSearchFailed /\ r.rpcs = 0
    /\ \E r \in Searching : r.provider = "200" /\ r.rpcs = 1

(* ------------------------------------------ claims on failed ingestion *)

\* The add calls issued for the hook invocation of this turn.
AddsOf(turn) == {k \in 1..Len(issued) : issued[k].turn = turn}

\* An add call of an earlier turn has failed.
FailedBefore(turn) == \E k \in 1..Len(raised) : raised[k].call.turn < turn

\* The turn completion follows an assistant turn and is the user's.
FollowsAssistantTurn(call) ==
    /\ call.new_message.role = "user"
    /\ call.items # <<>>
    /\ call.items[Len(call.items)].role = "assistant"

\* C37: a turn completion issues at most one add call, failed or not, and
\* a failed add leaves the agent as it was: a later turn completion of the
\* user that follows an assistant turn, with a session id, still dispatches
\* its ingestion to the agent's session.
C37_NoRetryAndLaterTurnsIngest ==
    /\ \A turn \in 1..Len(calls) :
          /\ Cardinality(AddsOf(turn)) <= 1
          /\ Cardinality(AddsOf(turn)) <= calls[turn].dispatched
    /\ \A k \in 1..Len(raised) : raised[k].call.session_id = agent.session_id
    /\ \A turn \in 1..Len(calls) :
          (/\ FailedBefore(turn)
           /\ FollowsAssistantTurn(calls[turn])
           /\ HasSession(agent.session_id))
              => calls[turn].dispatched = 1

\* The add call of the first turn failed; the second turn's ingestion was
\* dispatched and its one add call reached the store.
C37_Witness ==
    /\ Len(calls) >= 2
    /\ \E k \in 1..Len(raised) : raised[k].call.turn = 1
    /\ Cardinality(AddsOf(1)) = 1
    /\ calls[2].dispatched = 1
    /\ Cardinality(AddsOf(2)) = 1
    /\ \E k \in 1..Len(store) : store[k].turn = 2

(* ------------------------------------------- claims on the agent variant *)

\* C38: the agent variant is decided by the delegate flag alone. A delegate
\* caller gets the onboarding agent, from whose session no tool is called, so
\* no client RPC and no call of the automation service is issued; every other
\* caller gets the companion agent, constructed with the record the user
\* lookup returned, which is not null.
C38_VariantByDelegateFlag ==
    /\ agent # NoAgent =>
          /\ agent.variant = (IF job.is_family_member THEN "main.OnboardingAgent"
                                                      ELSE "main.Companion")
          /\ agent.session_id = job.session_id
    /\ agent.variant = "main.Companion" =>
          /\ Returned("get_user")
          /\ ~Raised("user_id")
          /\ agent.user = job.user
          /\ agent.user # NoUser
    /\ job.is_family_member =>
          /\ Invocations = {}
          /\ n8n.workflows = <<>> /\ n8n.next_id = 1 /\ n8n.removed = <<>>

\* A delegate's session reached its dialogue with the onboarding agent, and
\* called no tool.
C38_Witness ==
    /\ job.is_family_member
    /\ DialogueActive
    /\ agent.variant = "main.OnboardingAgent"
    /\ Invocations = {}

====
